---- MODULE Spec2Model ----
(***************************************************************************)
(* A model of AL_001_Customized_News_Digest/automation_news_daily.py:      *)
(* the RSSAutomationNewsDigest class (relevance filter, feed fetcher,      *)
(* aggregator, renderer) and the send_daily_digest pipeline around it.     *)
(* Python strings are TLA+ strings; a feedparser entry is a record whose   *)
(* DOMAIN is the set of attributes the entry has.                          *)
(***************************************************************************)
EXTENDS Integers, Sequences, FiniteSets, TLC

(***************************************************************************)
(* Bounds of the model.                                                    *)
(***************************************************************************)
\* the feed registry (self.rss_feeds) holds 0..MaxFeeds sources
MaxFeeds == 3
\* max_results ranges over -1..MaxResults for a directly constructed object
MaxResults == 3

(***************************************************************************)
(* String helpers.                                                         *)
(***************************************************************************)
Char(s, i) == SubSeq(s, i, i)

\* c * n
RECURSIVE Rep(_, _)
Rep(c, n) ==
    IF n <= 0 THEN ""
    ELSE IF n = 1 THEN c
    ELSE Rep(c, n \div 2) \o Rep(c, n - (n \div 2))

\* needle in haystack (Python's `in` on str)
Contains(hay, needle) ==
    \E i \in 1..(Len(hay) - Len(needle) + 1) :
        SubSeq(hay, i, i + Len(needle) - 1) = needle

UpperLetters == "ABCDEFGHIJKLMNOPQRSTUVWXYZ"
LowerLetters == "abcdefghijklmnopqrstuvwxyz"

LowerChar(c) ==
    IF \E i \in 1..Len(UpperLetters) : Char(UpperLetters, i) = c
    THEN LET i == CHOOSE j \in 1..Len(UpperLetters) : Char(UpperLetters, j) = c
         IN  Char(LowerLetters, i)
    ELSE c

\* str.lower()
RECURSIVE LowerRange(_, _, _)
LowerRange(s, lo, hi) ==
    IF lo > hi THEN ""
    ELSE IF lo = hi THEN LowerChar(Char(s, lo))
    ELSE LET mid == (lo + hi) \div 2
         IN  LowerRange(s, lo, mid) \o LowerRange(s, mid + 1, hi)

Lower(s) == LowerRange(s, 1, Len(s))

\* code-point order of the characters of a YYYY-MM-DD string
DateChars == "-0123456789"
Ord(c) == CHOOSE i \in 1..Len(DateChars) : Char(DateChars, i) = c

\* a < b for Python str (lexicographic by code point)
RECURSIVE StrLessFrom(_, _, _)
StrLessFrom(a, b, i) ==
    IF i > Len(b) THEN FALSE
    ELSE IF i > Len(a) THEN TRUE
    ELSE IF Char(a, i) = Char(b, i) THEN StrLessFrom(a, b, i + 1)
    ELSE Ord(Char(a, i)) < Ord(Char(b, i))

StrLess(a, b) == StrLessFrom(a, b, 1)
StrGeq(a, b) == ~StrLess(a, b)

(***************************************************************************)
(* Dates: a struct_time is [y, m, d]; strftime('%Y-%m-%d') formats it.     *)
(***************************************************************************)
Digit(n) == Char("0123456789", n + 1)
Pad2(n) == Digit((n \div 10) % 10) \o Digit(n % 10)
Pad4(n) == Pad2(n \div 100) \o Pad2(n % 100)
strftime(t) == Pad4(t.y) \o "-" \o Pad2(t.m) \o "-" \o Pad2(t.d)

Date(y, m, d) == [y |-> y, m |-> m, d |-> d]

(***************************************************************************)
(* RSSAutomationNewsDigest.__init__                                        *)
(***************************************************************************)
default_keywords ==
    << "workflow automation", "process automation", "digital automation",
       "robotic process automation", "rpa", "hyperautomation",
       "no-code automation", "low-code", "business process automation",
       "intelligent automation", "document automation", "task automation",
       "ai automation", "digital twins", "automation tools", "agentic",
       "ai agent", "automation platform", "workflow management",
       "automation", "automate", "automated", "automating",
       "productivity automation", "office automation", "email automation",
       "data automation", "automation software", "citizen developer" >>

\* self.keywords = keywords if keywords else self.default_keywords
InitKeywords(kwarg) == IF Len(kwarg) > 0 THEN kwarg ELSE default_keywords

(***************************************************************************)
(* _is_related_to_automation                                               *)
(***************************************************************************)
english_markers == << "the", "and", "is", "in", "to", "of", "for", "a", "with", "that" >>

text_to_check(title, description) == Lower(title \o " " \o description)

english_word_count(text) ==
    Cardinality({ i \in 1..Len(english_markers) :
                    Contains(" " \o text \o " ", " " \o english_markers[i] \o " ") })

\* mutant: one common English word is enough
is_english_OneMarker(text) == english_word_count(text) >= 1

is_english(text) == english_word_count(text) >= 2

is_automation_related(kws, text) ==
    \E i \in 1..Len(kws) : Contains(text, Lower(kws[i]))

is_related_to_automation(kws, title, description) ==
    LET text == text_to_check(title, description)
    IN  is_automation_related(kws, text) /\ is_english(text)

(***************************************************************************)
(* fetch_feed                                                              *)
(***************************************************************************)
\* hasattr(entry, attr) on a feedparser entry
hasattr(entry, attr) == attr \in DOMAIN entry

\* the first position from i on that holds one of chars, or 0
FirstOf(s, i, chars) ==
    LET at == { j \in i..Len(s) : Char(s, j) \in chars }
    IN  IF at = {} THEN 0 ELSE CHOOSE j \in at : \A k \in at : j <= k

\* where the non-greedy pattern <.*?> that starts with the '<' at i ends:
\* the first '>' after i, unless a newline comes before it ('.' matches none); else 0
TagEnd(s, i) ==
    LET j == FirstOf(s, i + 1, {">", "\n"})
    IN  IF j > 0 /\ Char(s, j) = ">" THEN j ELSE 0

\* re.sub(r'<.*?>', '', s), from position i on
RECURSIVE StripFrom(_, _)
StripFrom(s, i) ==
    LET lt == FirstOf(s, i, {"<"})
    IN  IF lt = 0 THEN SubSeq(s, i, Len(s))
        ELSE IF TagEnd(s, lt) > 0
             THEN SubSeq(s, i, lt - 1) \o StripFrom(s, TagEnd(s, lt) + 1)
             ELSE SubSeq(s, i, lt) \o StripFrom(s, lt + 1)

StripTags(s) == StripFrom(s, 1)

\* the description length kept by fetch_feed
DescLimit == 200

\* mutant: the comparison is >= instead of >
Truncate_AtLimit(clean) ==
    IF Len(clean) >= DescLimit THEN SubSeq(clean, 1, DescLimit) \o "..." ELSE clean

\* clean_description[:200] + '...' if len(clean_description) > 200 else clean_description
Truncate(clean) ==
    IF Len(clean) > DescLimit THEN SubSeq(clean, 1, DescLimit) \o "..." ELSE clean

\* description = summary, else description, else content[0].value, else ""
EntryDescription(entry) ==
    IF hasattr(entry, "summary") THEN entry.summary
    ELSE IF hasattr(entry, "description") THEN entry.description
    ELSE IF hasattr(entry, "content") /\ Len(entry.content) > 0 THEN entry.content[1]
    ELSE ""

\* published_parsed is <<>> (None) or <<struct_time>>; pubDate is <<>> (a string
\* pandas cannot parse) or <<struct_time>> (the date pandas parses it to)
EntryDate(entry, today) ==
    IF hasattr(entry, "published_parsed") /\ Len(entry.published_parsed) > 0
    THEN strftime(entry.published_parsed[1])
    ELSE IF hasattr(entry, "pubDate")
         THEN IF Len(entry.pubDate) > 0 THEN strftime(entry.pubDate[1]) ELSE today
         ELSE today

EntryUrl(entry) == IF hasattr(entry, "link") THEN entry.link ELSE ""

\* mutant: the url is not checked
Included_AnyUrl(kws, entry) ==
    /\ Len(entry.title) > 0
    /\ is_related_to_automation(kws, entry.title, EntryDescription(entry))

\* the inclusion check of line 165
Included(kws, entry) ==
    /\ Len(entry.title) > 0
    /\ Len(EntryUrl(entry)) > 0
    /\ is_related_to_automation(kws, entry.title, EntryDescription(entry))

\* the dict appended to feed_items
NewsItem(entry, feed_name, today) ==
    [ title       |-> entry.title,
      url         |-> EntryUrl(entry),
      description |-> Truncate(StripTags(EntryDescription(entry))),
      source      |-> feed_name,
      date        |-> EntryDate(entry, today) ]

\* entry.title on an entry without a title raises AttributeError
EntryRaises(entry) == ~hasattr(entry, "title")

\* the loop over parsed_feed.entries from entry i on: the items appended,
\* and whether an entry raised
RECURSIVE ProcessEntries(_, _, _, _, _)
ProcessEntries(kws, feed_name, entries, i, today) ==
    IF i > Len(entries) THEN [raised |-> FALSE, items |-> <<>>]
    ELSE IF EntryRaises(entries[i]) THEN [raised |-> TRUE, items |-> <<>>]
    ELSE LET rest == ProcessEntries(kws, feed_name, entries, i + 1, today)
             mine == IF Included(kws, entries[i])
                     THEN << NewsItem(entries[i], feed_name, today) >>
                     ELSE <<>>
         IN  IF rest.raised THEN rest
             ELSE [raised |-> FALSE, items |-> mine \o rest.items]

\* fetch_feed: parsed is what feedparser.parse does for the feed's url,
\* [raises |-> BOOLEAN, entries |-> sequence of entries]. The result is
\* (feed_items, entries_count), or the exception re-raised at line 190.
fetch_feed(kws, feed_name, parsed, today) ==
    IF parsed.raises
    THEN [raised |-> TRUE, items |-> <<>>, entries_count |-> 0]
    ELSE LET r == ProcessEntries(kws, feed_name, parsed.entries, 1, today)
         IN  IF r.raised
             THEN [raised |-> TRUE, items |-> <<>>, entries_count |-> 0]
             ELSE [raised |-> FALSE, items |-> r.items,
                   entries_count |-> Len(parsed.entries)]

(***************************************************************************)
(* What the feeds can hold: concrete entries and parsed feeds.             *)
(***************************************************************************)
Today == strftime(Date(2024, 3, 11))

E_platform ==
    [ title |-> "The new automation platform is here",
      link |-> "https://a.example/platform",
      summary |-> "<p>we <b>automated</b> our workflow</p>",
      published_parsed |-> << Date(2024, 3, 10) >> ]

\* published_parsed is None, pubDate parses
E_rpa ==
    [ title |-> "RPA bots and the office",
      link |-> "https://a.example/rpa",
      description |-> "<div>" \o Rep("r", 198) \o "</div>",
      published_parsed |-> <<>>,
      pubDate |-> << Date(2024, 3, 9) >> ]

\* more than 200 characters once the tags are gone
E_long ==
    [ title |-> "Automate the boring stuff in a day",
      link |-> "https://a.example/long",
      summary |-> "<i>" \o Rep("x", 201) \o "</i>",
      published_parsed |-> << Date(2024, 3, 10) >> ]

\* exactly 200 characters once the tag is gone; a stray '>' stays
E_edge ==
    [ title |-> "Automating is the way to go",
      link |-> "https://a.example/edge",
      summary |-> Rep("y", 199) \o ">" \o "<br/>",
      published_parsed |-> << Date(2023, 12, 31) >> ]

\* no date at all: defaults to today
E_undated ==
    [ title |-> "automation is the future",
      link |-> "https://a.example/undated",
      content |-> << "old <a href=\"x\">news</a> if a <\nb > c" >> ]

\* a pubDate that does not parse: defaults to today
E_baddate ==
    [ title |-> "Hyperautomation and the enterprise",
      link |-> "https://a.example/baddate",
      pubDate |-> <<>> ]

\* English, but about no default keyword
E_sport ==
    [ title |-> "the game is in town",
      link |-> "https://a.example/sport",
      summary |-> "completely unrelated sports news",
      published_parsed |-> << Date(2024, 3, 10) >> ]

\* a keyword, but fewer than two English marker words
E_foreign ==
    [ title |-> "Automatisierung RPA",
      link |-> "https://a.example/foreign",
      summary |-> "Prozessautomatisierung in Unternehmen",
      published_parsed |-> << Date(2024, 3, 10) >> ]

E_emptytitle ==
    [ title |-> "",
      link |-> "https://a.example/emptytitle",
      summary |-> "the automation is in the house" ]

E_nolink ==
    [ title |-> "The automation of the office",
      summary |-> "rpa is in the house" ]

E_emptylink ==
    [ title |-> "The automation of the office",
      link |-> "",
      summary |-> "rpa is in the house" ]

\* an entry with neither title nor link
E_bare ==
    [ summary |-> "the automation is in the house" ]

Parsed(entries) == [raises |-> FALSE, entries |-> entries]

\* feedparser.parse raises (network or parse error)
P_fail == [raises |-> TRUE, entries |-> <<>>]

ParsedFeeds ==
    { P_fail,
      Parsed(<<>>),
      Parsed(<< E_platform, E_sport, E_rpa >>),
      Parsed(<< E_long, E_edge >>),
      Parsed(<< E_platform, E_bare, E_long >>),
      Parsed(<< E_foreign, E_emptytitle, E_nolink, E_emptylink >>),
      Parsed(<< E_undated, E_edge, E_baddate, E_platform >>) }

\* the keywords argument of the constructor (<<>> stands for None)
KeywordArgs == { <<>>, << "Game", "RPA" >> }

\* The string work of fetch_feed on the entries above, done once per keyword
\* list and parsed feed (the source's name is filled in by FetchFeedOf).
KeywordLists == { InitKeywords(kw) : kw \in KeywordArgs }

FetchFeedTable ==
    { [ kws |-> k, parsed |-> p, result |-> fetch_feed(k, "", p, Today) ] :
        k \in KeywordLists, p \in ParsedFeeds }

Renamed(items, feed_name) ==
    [ i \in 1..Len(items) |-> [ items[i] EXCEPT !.source = feed_name ] ]

\* fetch_feed(kws, feed_name, parsed, Today), looked up
FetchFeedOf(k, feed_name, p) ==
    LET r == (CHOOSE t \in FetchFeedTable : t.kws = k /\ t.parsed = p).result
    IN  [ r EXCEPT !.items = Renamed(r.items, feed_name) ]

\* the registry: names of the sources, in listed order
FeedName(i) == "Feed" \o Digit(i)
Registry(n) == [i \in 1..n |-> [name |-> FeedName(i), url |-> "https://feed.example/" \o Digit(i)]]

(***************************************************************************)
(* fetch_news                                                              *)
(***************************************************************************)
\* mutant: an unstable sort, an item goes in front of the items of its date
RECURSIVE InsertByDate_Unstable(_, _)
InsertByDate_Unstable(sorted, x) ==
    IF sorted = <<>> THEN << x >>
    ELSE IF StrLess(x.date, Head(sorted).date)
         THEN << Head(sorted) >> \o InsertByDate_Unstable(Tail(sorted), x)
         ELSE << x >> \o sorted

\* list.sort(key=lambda x: x['date'], reverse=True): stable, newest first
RECURSIVE InsertByDate(_, _)
InsertByDate(sorted, x) ==
    IF sorted = <<>> THEN << x >>
    ELSE IF StrGeq(Head(sorted).date, x.date)
         THEN << Head(sorted) >> \o InsertByDate(Tail(sorted), x)
         ELSE << x >> \o sorted

RECURSIVE SortFrom(_, _, _)
SortFrom(items, i, acc) ==
    IF i > Len(items) THEN acc
    ELSE SortFrom(items, i + 1, InsertByDate(acc, items[i]))

\* mutant: reverse=True forgotten, oldest first
RECURSIVE InsertByDate_Ascending(_, _)
InsertByDate_Ascending(sorted, x) ==
    IF sorted = <<>> THEN << x >>
    ELSE IF StrGeq(x.date, Head(sorted).date)
         THEN << Head(sorted) >> \o InsertByDate_Ascending(Tail(sorted), x)
         ELSE << x >> \o sorted

RECURSIVE SortFrom_Ascending(_, _, _)
SortFrom_Ascending(items, i, acc) ==
    IF i > Len(items) THEN acc
    ELSE SortFrom_Ascending(items, i + 1, InsertByDate_Ascending(acc, items[i]))

SortByDate_Ascending(items) == SortFrom_Ascending(items, 1, <<>>)

SortByDate(items) == SortFrom(items, 1, <<>>)

\* items[:m]
SliceTo(items, m) ==
    IF m >= 0
    THEN SubSeq(items, 1, IF m < Len(items) THEN m ELSE Len(items))
    ELSE SubSeq(items, 1, IF Len(items) + m > 0 THEN Len(items) + m ELSE 0)

\* mutant: the slice keeps one item too many
Limit_OneTooMany(items, m) == IF Len(items) > m THEN SliceTo(items, m + 1) ELSE items

\* if len(self.news_items) > self.max_results: self.news_items = self.news_items[:self.max_results]
Limit(items, m) == IF Len(items) > m THEN SliceTo(items, m) ELSE items

(***************************************************************************)
(* Renderer: get_dataframe / save_to_csv / generate_html                   *)
(***************************************************************************)
\* datetime.now() within the run's day: the minute the clock shows
MaxTick == 1
Stamp(minute) == Today \o " 08:" \o Pad2(minute)

NoItemsHtml == "<p>No news items found.</p>"
DigestHeader == "<h1 style=\"color: #333;\">Automation News Digest</h1>"

\* the sources dict of generate_html: keys in order of first appearance
RECURSIVE GroupBySource(_, _, _)
GroupBySource(items, i, groups) ==
    IF i > Len(items) THEN groups
    ELSE LET src == items[i].source
             at == { g \in 1..Len(groups) : groups[g].source = src }
         IN  IF at = {}
             THEN GroupBySource(items, i + 1,
                      Append(groups, [source |-> src, items |-> << items[i] >>]))
             ELSE LET g == CHOOSE x \in at : TRUE
                  IN  GroupBySource(items, i + 1,
                          [groups EXCEPT ![g].items = Append(@, items[i])])

\* one <li>: the link, the title, the description and the date of an item
HtmlItem(item) ==
    [ href |-> item.url, text |-> item.title,
      description |-> item.description, date |-> item.date ]

HtmlSection(group) ==
    [ h2 |-> group.source,
      li |-> [ i \in 1..Len(group.items) |-> HtmlItem(group.items[i]) ] ]

\* mutant: the check for an empty news_items is missing
generate_html_NoEmptyCheck(items, stamp) ==
    LET groups == GroupBySource(items, 1, <<>>)
    IN  [ head |-> DigestHeader,
          generated |-> "<p>Generated on " \o stamp \o "</p>",
          sections |-> [ g \in 1..Len(groups) |-> HtmlSection(groups[g]) ] ]

\* generate_html: the document as its parts (head: the markup before the
\* sections; generated: the "Generated on" line; sections: one per source)
generate_html(items, stamp) ==
    IF items = <<>>
    THEN [ head |-> NoItemsHtml, generated |-> "", sections |-> <<>> ]
    ELSE LET groups == GroupBySource(items, 1, <<>>)
         IN  [ head |-> DigestHeader,
               generated |-> "<p>Generated on " \o stamp \o "</p>",
               sections |-> [ g \in 1..Len(groups) |-> HtmlSection(groups[g]) ] ]

\* pd.DataFrame(self.news_items).to_csv(index=False)
CsvHeader == << "title", "url", "description", "source", "date" >>
CsvRow(item) == << item.title, item.url, item.description, item.source, item.date >>
to_csv(items) ==
    [ header |-> CsvHeader, rows |-> [ i \in 1..Len(items) |-> CsvRow(items[i]) ] ]

(***************************************************************************)
(* get_claude_summary, send_news_digest_email                              *)
(***************************************************************************)
\* how a call of get_claude_summary can end
SummaryOutcomes ==
    { "no_key_file",      \* user_api_key.txt does not exist: None
      "key_unreadable",   \* open('user_api_key.txt') raises
      "no_html_file",     \* the HTML file is not at the expected path: None
      "bad_status",       \* the API answers with a status other than 200: None
      "transport_error",  \* requests.post or reading the answer raises: caught, None
      "ok" }              \* status 200: the text of the answer

\* result["content"][0]["text"] of a 200 answer
SummaryTexts == { "", "* RPA grows * agents rise" }

SummaryPlaceholder == "<p>AI summary not available for today.</p>"
FallbackSummary == "Error generating AI summary."

\* str.replace(old, new) for a one-character old
RECURSIVE ReplaceFrom(_, _, _, _)
ReplaceFrom(s, i, old, new) ==
    LET at == FirstOf(s, i, {old})
    IN  IF at = 0 THEN SubSeq(s, i, Len(s))
        ELSE SubSeq(s, i, at - 1) \o new \o ReplaceFrom(s, at + 1, old, new)

Replace(s, old, new) == ReplaceFrom(s, 1, old, new)

\* mutant: the summary is formatted into the page whether there is one or not
SummaryHtml_NoPlaceholder(summary) ==
    IF Len(summary) > 0 THEN Replace(summary[1], "*", "<br>*") ELSE "None"

\* the summary block of the email: lines 538-541 (summary is <<>> for None);
\* the texts here hold no bullet character, so only '*' is replaced
SummaryHtml(summary) ==
    IF Len(summary) > 0 /\ Len(summary[1]) > 0
    THEN Replace(summary[1], "*", "<br>*")
    ELSE SummaryPlaceholder

\* lines 551-555: the header (and all before it) and the "Generated on" line removed
DigestHtml(html) ==
    [ head |-> IF html.head = DigestHeader THEN "" ELSE html.head,
      sections |-> html.sections ]

\* the HTML body of the email
EmailBody(items, summary, stamp) ==
    [ summary |-> SummaryHtml(summary),
      digest  |-> DigestHtml(generate_html(items, stamp)) ]

\* how a call of send_news_digest_email can end
EmailOutcomes ==
    { "config_raises",   \* setup_email_config raises: no message is built
      "sent",            \* the SMTP exchange succeeds: returns True
      "smtp_failed" }    \* connect, starttls, login or send raises: caught, returns False

\* the record of one call of send_news_digest_email
EmailCall(call, items, summary, stamp, outcome) ==
    [ call |-> call,
      outcome |-> outcome,
      body |-> IF outcome = "config_raises" THEN <<>>
               ELSE << EmailBody(items, summary, stamp) >> ]

VARIABLES
    caller,                 \* "direct": the class used on its own; "daily": send_daily_digest
    keywords,               \* self.keywords
    max_results,            \* self.max_results
    rss_feeds,              \* self.rss_feeds
    news_items,             \* self.news_items
    pc,                     \* where the run is
    feed_index,             \* fetch_news: number of sources processed so far
    successful_feeds,       \* fetch_news: successful_feeds
    failed_feeds,           \* fetch_news: failed_feeds
    total_entries_checked,  \* fetch_news: total_entries_checked
    parsed_log,             \* what feedparser.parse did for each source processed
    clock,                  \* the minute datetime.now() shows
    html_out,               \* direct use: <<>>, or the value generate_html returned
    html_renders,           \* direct use: the calls of generate_html on the returned result
    table_renders,          \* direct use: the tables get_dataframe made of the returned result
    filter_call,            \* direct use: <<>>, or the last call of _is_related_to_automation
    html_file,              \* <<>>, or the content save_to_html wrote
    csv_file,               \* <<>>, or the content save_to_csv wrote
    summary_outcome,        \* how get_claude_summary ended ("" before it ran)
    claude_summary,         \* send_daily_digest: claude_summary (<<>> for None)
    raised_at,              \* the step whose exception reached the except clause ("" if none)
    email_calls,            \* the calls of send_news_digest_email, in order
    result                  \* what send_daily_digest returned ("" while running)

fetch_vars == << feed_index, successful_feeds, failed_feeds, total_entries_checked,
                 parsed_log >>
config_vars == << caller, keywords, max_results, rss_feeds >>
daily_vars == << html_file, csv_file, summary_outcome, claude_summary, raised_at,
                 email_calls, result >>

render_vars == << html_renders, table_renders >>

vars == << config_vars, news_items, pc, fetch_vars, clock, html_out, render_vars,
           filter_call, daily_vars >>

\* max_results of the digest that send_daily_digest constructs
DailyMaxResults == 10

Init ==
    /\ caller \in {"direct", "daily"}
    /\ \E kw \in KeywordArgs :
          /\ caller = "daily" => kw = <<>>
          /\ keywords = InitKeywords(kw)
    /\ max_results \in (-1..MaxResults) \cup {DailyMaxResults}
    /\ caller = "daily" <=> max_results = DailyMaxResults
    /\ \E n \in 0..MaxFeeds : rss_feeds = Registry(n)
    /\ news_items = <<>>
    /\ pc = "fetch_news"
    /\ feed_index = 0
    /\ successful_feeds = 0
    /\ failed_feeds = 0
    /\ total_entries_checked = 0
    /\ parsed_log = <<>>
    /\ clock = 0
    /\ html_out = <<>>
    /\ html_renders = <<>>
    /\ table_renders = <<>>
    /\ filter_call = <<>>
    /\ html_file = <<>>
    /\ csv_file = <<>>
    /\ summary_outcome = ""
    /\ claude_summary = <<>>
    /\ raised_at = ""
    /\ email_calls = <<>>
    /\ result = ""

\* mutant: a source that yields no relevant item is not counted as successful
FetchNewsFeed_EmptyNotCounted ==
    /\ pc = "fetch_news"
    /\ feed_index < Len(rss_feeds)
    /\ \E parsed \in ParsedFeeds :
          LET feed == rss_feeds[feed_index + 1]
              r == FetchFeedOf(keywords, feed.name, parsed)
          IN  /\ parsed_log' = Append(parsed_log, parsed)
              /\ IF r.raised
                 THEN /\ failed_feeds' = failed_feeds + 1
                      /\ UNCHANGED << news_items, successful_feeds, total_entries_checked >>
                 ELSE /\ total_entries_checked' = total_entries_checked + r.entries_count
                      /\ news_items' = news_items \o r.items
                      /\ successful_feeds' =
                            IF r.items # <<>> THEN successful_feeds + 1 ELSE successful_feeds
                      /\ UNCHANGED failed_feeds
    /\ feed_index' = feed_index + 1
    /\ UNCHANGED << config_vars, render_vars, filter_call, pc, clock, html_out, daily_vars >>

\* one iteration of the loop over self.rss_feeds
FetchNewsFeed ==
    /\ pc = "fetch_news"
    /\ feed_index < Len(rss_feeds)
    /\ \E parsed \in ParsedFeeds :
          LET feed == rss_feeds[feed_index + 1]
              r == FetchFeedOf(keywords, feed.name, parsed)
          IN  /\ parsed_log' = Append(parsed_log, parsed)
              /\ IF r.raised
                 THEN /\ failed_feeds' = failed_feeds + 1
                      /\ UNCHANGED << news_items, successful_feeds, total_entries_checked >>
                 ELSE /\ total_entries_checked' = total_entries_checked + r.entries_count
                      /\ news_items' = news_items \o r.items
                      /\ successful_feeds' = successful_feeds + 1
                      /\ UNCHANGED failed_feeds
    /\ feed_index' = feed_index + 1
    /\ UNCHANGED << config_vars, render_vars, filter_call, pc, clock, html_out, daily_vars >>

\* after the loop: sort, limit, return
FetchNewsReturn ==
    /\ pc = "fetch_news"
    /\ feed_index = Len(rss_feeds)
    /\ news_items' = Limit(SortByDate(news_items), max_results)
    /\ pc' = IF caller = "daily" THEN "save_to_html" ELSE "returned"
    /\ UNCHANGED << config_vars, render_vars, filter_call, fetch_vars, clock, html_out, daily_vars >>

\* direct use: digest.generate_html()
GenerateHtml ==
    /\ pc = "returned"
    /\ \E minute \in clock..MaxTick :
          /\ clock' = minute
          /\ html_out' = << generate_html(news_items, Stamp(minute)) >>
    /\ pc' = "rendered"
    /\ UNCHANGED << config_vars, render_vars, filter_call, news_items, fetch_vars, daily_vars >>

\* send_daily_digest, line 601: digest.save_to_html(html_file)
SaveToHtml ==
    /\ pc = "save_to_html"
    /\ IF news_items = <<>>
       THEN /\ pc' = "save_to_csv"
            /\ UNCHANGED << clock, html_file, raised_at >>
       ELSE \E minute \in clock..MaxTick, ok \in BOOLEAN :
               /\ clock' = minute
               /\ IF ok
                  THEN /\ html_file' = << generate_html(news_items, Stamp(minute)) >>
                       /\ pc' = "save_to_csv"
                       /\ UNCHANGED raised_at
                  ELSE /\ raised_at' = "save_to_html"
                       /\ pc' = "except"
                       /\ UNCHANGED html_file
    /\ UNCHANGED << config_vars, render_vars, filter_call, news_items, fetch_vars, html_out, csv_file,
                    summary_outcome, claude_summary, email_calls, result >>

\* line 602: digest.save_to_csv(csv_file)
SaveToCsv ==
    /\ pc = "save_to_csv"
    /\ IF news_items = <<>>
       THEN /\ pc' = "get_claude_summary"
            /\ UNCHANGED << csv_file, raised_at >>
       ELSE \E ok \in BOOLEAN :
               IF ok
               THEN /\ csv_file' = << to_csv(news_items) >>
                    /\ pc' = "get_claude_summary"
                    /\ UNCHANGED raised_at
               ELSE /\ raised_at' = "save_to_csv"
                    /\ pc' = "except"
                    /\ UNCHANGED csv_file
    /\ UNCHANGED << config_vars, render_vars, filter_call, news_items, fetch_vars, clock, html_out, html_file,
                    summary_outcome, claude_summary, email_calls, result >>

\* lines 606-611: claude_summary = get_claude_summary(), then ai_summary.txt
\* is written if there is a summary (the write may raise)
GetClaudeSummary ==
    /\ pc = "get_claude_summary"
    /\ \E outcome \in SummaryOutcomes, text \in SummaryTexts, write_ok \in BOOLEAN :
          /\ summary_outcome' = outcome
          /\ outcome # "ok" => (text = "" /\ write_ok)
          /\ text = "" => write_ok
          /\ IF outcome = "key_unreadable"
             THEN /\ raised_at' = "get_claude_summary"
                  /\ pc' = "except"
                  /\ UNCHANGED claude_summary
             ELSE /\ claude_summary' = IF outcome = "ok" THEN << text >> ELSE <<>>
                  /\ IF write_ok
                     THEN pc' = "send_email" /\ UNCHANGED raised_at
                     ELSE pc' = "except" /\ raised_at' = "write_summary"
    /\ UNCHANGED << config_vars, render_vars, filter_call, news_items, fetch_vars, clock, html_out, html_file,
                    csv_file, email_calls, result >>

\* mutant: a failure of the SMTP exchange is not caught in send_news_digest_email
SendEmail_SmtpRaises ==
    /\ pc = "send_email"
    /\ \E minute \in clock..MaxTick, outcome \in EmailOutcomes :
          /\ clock' = minute
          /\ email_calls' = Append(email_calls,
                EmailCall("digest", news_items, claude_summary, Stamp(minute), outcome))
          /\ IF outcome # "sent"
             THEN /\ raised_at' = "send_email"
                  /\ pc' = "except"
                  /\ UNCHANGED result
             ELSE /\ pc' = "done"
                  /\ result' = "True"
                  /\ UNCHANGED raised_at
    /\ UNCHANGED << config_vars, render_vars, filter_call, news_items, fetch_vars, html_out, html_file, csv_file,
                    summary_outcome, claude_summary >>

\* lines 615-618: send_news_digest_email(digest, claude_summary); return True
SendEmail ==
    /\ pc = "send_email"
    /\ \E minute \in clock..MaxTick, outcome \in EmailOutcomes :
          /\ clock' = minute
          /\ email_calls' = Append(email_calls,
                EmailCall("digest", news_items, claude_summary, Stamp(minute), outcome))
          /\ IF outcome = "config_raises"
             THEN /\ raised_at' = "send_email"
                  /\ pc' = "except"
                  /\ UNCHANGED result
             ELSE /\ pc' = "done"
                  /\ result' = "True"
                  /\ UNCHANGED raised_at
    /\ UNCHANGED << config_vars, render_vars, filter_call, news_items, fetch_vars, html_out, html_file, csv_file,
                    summary_outcome, claude_summary >>

\* mutant: no inner try around the fallback, so its exception escapes
Except_FallbackEscapes ==
    /\ pc = "except"
    /\ IF news_items # <<>>
       THEN \E minute \in clock..MaxTick, outcome \in EmailOutcomes :
               /\ clock' = minute
               /\ email_calls' = Append(email_calls,
                     EmailCall("fallback", news_items, << FallbackSummary >>,
                               Stamp(minute), outcome))
               /\ pc' = IF outcome = "config_raises" THEN "crashed" ELSE "done"
               /\ result' = IF outcome = "config_raises" THEN "" ELSE "False"
       ELSE /\ pc' = "done"
            /\ result' = "False"
            /\ UNCHANGED << clock, email_calls >>
    /\ UNCHANGED << config_vars, render_vars, filter_call, news_items, fetch_vars, html_out, html_file, csv_file,
                    summary_outcome, claude_summary, raised_at >>

\* lines 620-629: the except clause
Except ==
    /\ pc = "except"
    /\ IF news_items # <<>>
       THEN \E minute \in clock..MaxTick, outcome \in EmailOutcomes :
               /\ clock' = minute
               /\ email_calls' = Append(email_calls,
                     EmailCall("fallback", news_items, << FallbackSummary >>,
                               Stamp(minute), outcome))
       ELSE UNCHANGED << clock, email_calls >>
    /\ pc' = "done"
    /\ result' = "False"
    /\ UNCHANGED << config_vars, render_vars, filter_call, news_items, fetch_vars, html_out, html_file, csv_file,
                    summary_outcome, claude_summary, raised_at >>

(***************************************************************************)
(* _is_related_to_automation called on its own, on a title and a           *)
(* description put together from a few words.                              *)
(***************************************************************************)
\* how many words a title has at most
MaxWords == 3

\* a capitalised marker, a marker, a marker with a full stop, a marker inside
\* a longer word, keywords of either list, two markers joined by a tab, and
\* the empty word (two spaces in a row)
FilterWords == { "The", "and", "of.", "within", "RPA", "Game", "is\tin", "" }

RECURSIVE JoinWords(_, _)
JoinWords(words, i) ==
    IF i > Len(words) THEN ""
    ELSE IF i = Len(words) THEN words[i]
    ELSE words[i] \o " " \o JoinWords(words, i + 1)

FilterTitles ==
    UNION { { JoinWords(ws, 1) : ws \in [1..n -> FilterWords] } : n \in 0..MaxWords }

\* description="" is the default of the parameter
FilterDescriptions == { "", "a Bot" }

\* a digest of its own, no sources needed
FilterInit ==
    /\ Init
    /\ caller = "direct"
    /\ max_results = MaxResults
    /\ rss_feeds = <<>>

\* digest._is_related_to_automation(title, description), called once
CheckRelated ==
    /\ filter_call = <<>>
    /\ \E title \in FilterTitles, description \in FilterDescriptions :
          filter_call' = << [ title |-> title, description |-> description,
                              verdict |-> is_related_to_automation(keywords, title,
                                                                   description) ] >>
    /\ UNCHANGED << config_vars, render_vars, news_items, pc, fetch_vars, clock, html_out,
                    daily_vars >>

FilterNext ==
    \/ CheckRelated

SpecFilter == FilterInit /\ [][FilterNext]_vars

(***************************************************************************)
(* fetch_news on its own: the digest is constructed, fetch_news is called  *)
(* and returns.                                                            *)
(***************************************************************************)
FetchNext ==
    \/ FetchNewsFeed
    \/ FetchNewsReturn

SpecFetch == Init /\ [][FetchNext]_vars

(***************************************************************************)
(* The renderer called repeatedly on one returned result.                  *)
(***************************************************************************)
\* how many times each form is rendered
MaxRenders == 2

\* a digest of its own, with the default keywords and the largest max_results
RenderInit ==
    /\ Init
    /\ caller = "direct"
    /\ keywords = default_keywords
    /\ max_results = MaxResults

\* mutant: building the groups takes the items off self.news_items
RenderHtml_Consumes ==
    /\ pc = "returned"
    /\ Len(html_renders) < MaxRenders
    /\ \E minute \in clock..MaxTick :
          /\ clock' = minute
          /\ html_renders' = Append(html_renders,
                [ minute |-> minute, out |-> generate_html(news_items, Stamp(minute)) ])
    /\ news_items' = <<>>
    /\ UNCHANGED << config_vars, filter_call, pc, fetch_vars, html_out, table_renders,
                    daily_vars >>

\* digest.generate_html(), at the minute the clock shows
RenderHtml ==
    /\ pc = "returned"
    /\ Len(html_renders) < MaxRenders
    /\ \E minute \in clock..MaxTick :
          /\ clock' = minute
          /\ html_renders' = Append(html_renders,
                [ minute |-> minute, out |-> generate_html(news_items, Stamp(minute)) ])
    /\ UNCHANGED << config_vars, filter_call, news_items, pc, fetch_vars, html_out,
                    table_renders, daily_vars >>

\* digest.get_dataframe(), written out as save_to_csv writes it
RenderTable ==
    /\ pc = "returned"
    /\ Len(table_renders) < MaxRenders
    /\ table_renders' = Append(table_renders, to_csv(news_items))
    /\ UNCHANGED << config_vars, filter_call, news_items, pc, fetch_vars, clock, html_out,
                    html_renders, daily_vars >>

RenderNext ==
    \/ FetchNewsFeed
    \/ FetchNewsReturn
    \/ RenderHtml
    \/ RenderTable

SpecRender == RenderInit /\ [][RenderNext]_vars

Next ==
    \/ FetchNewsFeed
    \/ FetchNewsReturn
    \/ GenerateHtml
    \/ SaveToHtml
    \/ SaveToCsv
    \/ GetClaudeSummary
    \/ SendEmail
    \/ Except

Spec == Init /\ [][Next]_vars

(***************************************************************************)
(* Vocabulary of the properties.                                           *)
(***************************************************************************)
\* the run is past fetch_news
Returned == pc # "fetch_news"

\* source i was processed and its fetch_feed raised
Failed(i) == FetchFeedOf(keywords, rss_feeds[i].name, parsed_log[i]).raised

\* the items fetch_feed returned for source i
ItemsOf(i) == FetchFeedOf(keywords, rss_feeds[i].name, parsed_log[i]).items

FailedSources == { i \in 1..Len(parsed_log) : Failed(i) }
SucceededSources == { i \in 1..Len(parsed_log) : ~Failed(i) }

\* the items of the first n sources whose fetch succeeded, in listed order
RECURSIVE Collected(_)
Collected(n) ==
    IF n = 0 THEN <<>>
    ELSE Collected(n - 1) \o (IF Failed(n) THEN <<>> ELSE ItemsOf(n))

SortedByDate(items) ==
    \A i \in 1..(Len(items) - 1) : StrGeq(items[i].date, items[i + 1].date)

\* every entry a feed above can hold
EntryCatalogue ==
    UNION { { p.entries[j] : j \in 1..Len(p.entries) } : p \in ParsedFeeds }

\* the (keyword list, entry) pairs the Relevance Filter accepts, on the
\* entry's title and its original description
RelatedPairs ==
    UNION { IF is_related_to_automation(ke[1], ke[2].title, EntryDescription(ke[2]))
            THEN { ke } ELSE {} :
            ke \in KeywordLists \X { e \in EntryCatalogue : hasattr(e, "title") } }

\* each entry with its original and its tag-stripped description
Descriptions ==
    { [ entry |-> e,
        original |-> EntryDescription(e),
        clean |-> StripTags(EntryDescription(e)) ] : e \in EntryCatalogue }

DescriptionOf(e) == CHOOSE d \in Descriptions : d.entry = e

\* the entries of source i that item can have been made from
EntriesOf(item, i) ==
    { e \in { parsed_log[i].entries[j] : j \in 1..Len(parsed_log[i].entries) } :
        /\ hasattr(e, "title")
        /\ e.title = item.title
        /\ EntryUrl(e) = item.url
        /\ EntryDate(e, Today) = item.date }

\* the sources processed so far that are named as item's source
SourcesOf(item) ==
    { i \in 1..Len(parsed_log) : rss_feeds[i].name = item.source /\ ~parsed_log[i].raises }

\* the entries of source i that pass the inclusion check: title, url, filter
PassingEntries(i) ==
    { j \in 1..Len(parsed_log[i].entries) :
        LET e == parsed_log[i].entries[j]
        IN  /\ hasattr(e, "title")
            /\ Len(e.title) > 0
            /\ Len(EntryUrl(e)) > 0
            /\ <<keywords, e>> \in RelatedPairs }

(***************************************************************************)
(* C1: fetch_news processes every source in listed order and never aborts; *)
(* before the sort and the limit, news_items is exactly the items of the   *)
(* sources whose fetch_feed did not raise, and holds no item of a failed   *)
(* source; failed_feeds counts the failing sources, successful_feeds the   *)
(* others, and together they count every source.                           *)
(***************************************************************************)
C1_PartialFailure ==
    /\ Len(parsed_log) = feed_index
    /\ feed_index <= Len(rss_feeds)
    /\ Returned => feed_index = Len(rss_feeds)
    /\ failed_feeds = Cardinality(FailedSources)
    /\ successful_feeds = Cardinality(SucceededSources)
    /\ successful_feeds + failed_feeds = feed_index
    /\ pc = "fetch_news" =>
          /\ news_items = Collected(feed_index)
          /\ \A k \in 1..Len(news_items) :
                \E i \in SucceededSources : news_items[k].source = rss_feeds[i].name

\* three sources, the second failing: items of the first and the third only
C1_Witness ==
    /\ pc = "fetch_news"
    /\ Len(rss_feeds) = 3
    /\ feed_index = 3
    /\ FailedSources = {2}
    /\ failed_feeds = 1
    /\ successful_feeds = 2
    /\ { news_items[k].source : k \in 1..Len(news_items) } = { FeedName(1), FeedName(3) }

(***************************************************************************)
(* C2 as stated: after fetch_news returns, news_items holds at most        *)
(* max_results items, whatever max_results is.                             *)
(***************************************************************************)
C2_AnyMaxResults ==
    Returned => Len(news_items) <= max_results

(***************************************************************************)
(* C2, amended: after fetch_news returns, news_items holds at most         *)
(* max_results items, for every max_results >= 0.                          *)
(***************************************************************************)
C2_LengthBound ==
    (Returned /\ max_results >= 0) => Len(news_items) <= max_results

\* more items were collected than max_results allows, and the limit cut them
C2_Witness ==
    /\ Returned
    /\ max_results > 0
    /\ Len(Collected(Len(rss_feeds))) > max_results
    /\ Len(news_items) = max_results

(***************************************************************************)
(* C3: after fetch_news returns, news_items is sorted by date, newest      *)
(* first: each item's date string is >= the next item's.                   *)
(***************************************************************************)
C3_SortedByDate ==
    Returned => SortedByDate(news_items)

\* the collected items were out of order and at least three are returned
C3_Witness ==
    /\ Returned
    /\ Len(news_items) >= 3
    /\ ~SortedByDate(Collected(Len(rss_feeds)))
    /\ news_items[1].date # news_items[Len(news_items)].date

(***************************************************************************)
(* C4: every item of news_items has a non-empty title and a non-empty url  *)
(* and was made from an entry of its source whose title and original       *)
(* description the Relevance Filter accepts; a source contributes no more  *)
(* items than it has entries passing all three checks.                     *)
(***************************************************************************)
C4_RelevantItems ==
    /\ \A k \in 1..Len(news_items) :
          LET item == news_items[k]
          IN  /\ Len(item.title) > 0
              /\ Len(item.url) > 0
              /\ \E i \in SourcesOf(item) : \E e \in EntriesOf(item, i) :
                    <<keywords, e>> \in RelatedPairs
    /\ \A i \in SucceededSources :
          Cardinality({ k \in 1..Len(news_items) :
                          news_items[k].source = rss_feeds[i].name })
             <= Cardinality(PassingEntries(i))

\* items were returned from feeds that also held an entry with an empty
\* title, one without a link, and one the filter rejects
C4_Witness ==
    /\ Returned
    /\ Len(news_items) >= 2
    /\ \E i \in SucceededSources : \E j \in 1..Len(parsed_log[i].entries) :
          parsed_log[i].entries[j] = E_emptytitle
    /\ \E i \in SucceededSources : \E j \in 1..Len(parsed_log[i].entries) :
          parsed_log[i].entries[j] = E_nolink
    /\ \E i \in SucceededSources : \E j \in 1..Len(parsed_log[i].entries) :
          /\ parsed_log[i].entries[j] = E_sport
          /\ <<keywords, E_sport>> \notin RelatedPairs

(***************************************************************************)
(* C5 as stated: an item made from an entry whose description is longer    *)
(* than 200 characters has a description of exactly 203 characters; an     *)
(* item made from a description of at most 200 characters has the          *)
(* tag-stripped description.                                               *)
(***************************************************************************)
C5_OriginalLength ==
    \A k \in 1..Len(news_items) :
       \A i \in SourcesOf(news_items[k]) : \A e \in EntriesOf(news_items[k], i) :
          LET d == DescriptionOf(e)
          IN  IF Len(d.original) > DescLimit
              THEN Len(news_items[k].description) = DescLimit + 3
              ELSE news_items[k].description = d.clean

(***************************************************************************)
(* C5, amended: an item made from an entry whose tag-stripped description  *)
(* is longer than 200 characters has the first 200 characters of the       *)
(* tag-stripped description followed by '...' (203 characters); otherwise  *)
(* it has the tag-stripped description, unchanged.                         *)
(***************************************************************************)
C5_TruncationLaw ==
    \A k \in 1..Len(news_items) :
       \A i \in SourcesOf(news_items[k]) : \A e \in EntriesOf(news_items[k], i) :
          LET d == DescriptionOf(e)
              stored == news_items[k].description
          IN  IF Len(d.clean) > DescLimit
              THEN /\ Len(stored) = DescLimit + 3
                   /\ SubSeq(stored, 1, DescLimit) = SubSeq(d.clean, 1, DescLimit)
                   /\ SubSeq(stored, DescLimit + 1, DescLimit + 3) = "..."
              ELSE stored = d.clean

\* one item was cut to 203 characters, one of exactly 200 characters kept
C5_Witness ==
    /\ \E k \in 1..Len(news_items) :
          /\ Len(news_items[k].description) = DescLimit + 3
          /\ news_items[k].url = E_long.link
    /\ \E k \in 1..Len(news_items) :
          /\ Len(news_items[k].description) = DescLimit
          /\ news_items[k].url = E_edge.link

(***************************************************************************)
(* C6 as stated: an entry that has neither title nor link is dropped and   *)
(* its feed still succeeds: a source whose feed parses and whose only      *)
(* title-less entries also lack a link is not counted as failed, and       *)
(* contributes the items of its other entries.                             *)
(***************************************************************************)
BareOnly(i) ==
    /\ ~parsed_log[i].raises
    /\ \A j \in 1..Len(parsed_log[i].entries) :
          LET e == parsed_log[i].entries[j]
          IN  hasattr(e, "title") \/ ~hasattr(e, "link")

C6_BareEntryDropped ==
    /\ failed_feeds <= Cardinality({ i \in 1..Len(parsed_log) : ~BareOnly(i) })
    /\ pc = "fetch_news" =>
          \A i \in 1..Len(parsed_log) :
             BareOnly(i) =>
                Cardinality({ k \in 1..Len(news_items) :
                                news_items[k].source = rss_feeds[i].name })
                   = Cardinality(PassingEntries(i))

\* the calls of send_news_digest_email of one kind, by position
Calls(kind) == { c \in 1..Len(email_calls) : email_calls[c].call = kind }

\* the places a run can be at
Places ==
    { "fetch_news", "returned", "rendered", "save_to_html", "save_to_csv",
      "get_claude_summary", "send_email", "except", "done" }

(***************************************************************************)
(* C7 as stated: an exception raised by any step of send_daily_digest is   *)
(* caught at the top level, a fallback email is attempted before the run   *)
(* ends, and the run returns False.                                        *)
(***************************************************************************)
C7_AlwaysFallback ==
    (pc = "done" /\ raised_at # "") =>
        /\ result = "False"
        /\ Calls("fallback") # {}

(***************************************************************************)
(* C7, amended: an exception raised by any step of send_daily_digest is    *)
(* caught at the top level; the fallback email is attempted before the run *)
(* ends if and only if at least one item was gathered; whether or not the  *)
(* fallback raises too, the run ends normally and returns False.           *)
(***************************************************************************)
C7_TopLevelCatch ==
    /\ pc \in Places
    /\ raised_at # "" => pc \in {"except", "done"}
    /\ pc = "except" => (raised_at # "" /\ result = "" /\ Calls("fallback") = {})
    /\ (pc = "done" /\ raised_at # "") =>
          /\ result = "False"
          /\ news_items # <<>> <=> Calls("fallback") # {}
          /\ Calls("fallback") \subseteq { Len(email_calls) }
    /\ (pc = "done" /\ raised_at = "") => (result = "True" /\ Calls("fallback") = {})

\* a step raised, the fallback was attempted and raised too, the run returned False
C7_Witness ==
    /\ pc = "done"
    /\ raised_at = "save_to_csv"
    /\ result = "False"
    /\ \E c \in Calls("fallback") : email_calls[c].outcome = "config_raises"

(***************************************************************************)
(* C8 as stated: when the transmission of the digest email fails and at    *)
(* least one item was gathered, a fallback email is attempted afterwards.  *)
(***************************************************************************)
C8_FallbackAfterSmtpFailure ==
    (/\ pc = "done"
     /\ news_items # <<>>
     /\ \E c \in Calls("digest") : email_calls[c].outcome = "smtp_failed")
        => Calls("fallback") # {}

(***************************************************************************)
(* C8, amended: when the transmission of the digest email fails, the       *)
(* failure is reported by send_news_digest_email (it returns False) and    *)
(* nothing is raised past it; no fallback email is attempted, whether or   *)
(* not items were gathered: that call is the run's only email call and     *)
(* send_daily_digest returns True.                                         *)
(***************************************************************************)
C8_SmtpFailureReported ==
    \A c \in Calls("digest") :
        email_calls[c].outcome = "smtp_failed" =>
            /\ pc = "done"
            /\ raised_at = ""
            /\ result = "True"
            /\ Len(email_calls) = 1

\* items were gathered and the transmission of the digest email failed
C8_Witness ==
    /\ pc = "done"
    /\ news_items # <<>>
    /\ Len(email_calls) = 1
    /\ email_calls[1].call = "digest"
    /\ email_calls[1].outcome = "smtp_failed"

(***************************************************************************)
(* C9: when get_claude_summary yields no summary (no credentials file, no  *)
(* HTML file, a status other than 200, a transport error), no exception is *)
(* raised for it, the run goes on to send_news_digest_email, and the body  *)
(* of that email holds the placeholder in place of the summary.            *)
(***************************************************************************)
NoSummaryOutcomes == { "no_key_file", "no_html_file", "bad_status", "transport_error" }

C9_SummaryUnavailable ==
    summary_outcome \in NoSummaryOutcomes =>
        /\ claude_summary = <<>>
        /\ raised_at \notin { "get_claude_summary", "write_summary" }
        /\ pc \in { "send_email", "except", "done" }
        /\ pc = "send_email" => (email_calls = <<>> /\ ENABLED SendEmail)
        /\ pc # "send_email" => (email_calls # <<>> /\ email_calls[1].call = "digest")
        /\ \A c \in Calls("digest") :
              email_calls[c].body # <<>> =>
                  email_calls[c].body[1].summary = SummaryPlaceholder

\* the API answered with an error status and the digest email went out
C9_Witness ==
    /\ pc = "done"
    /\ summary_outcome = "bad_status"
    /\ news_items # <<>>
    /\ Len(email_calls) = 1
    /\ email_calls[1].outcome = "sent"
    /\ email_calls[1].body[1].summary = SummaryPlaceholder

(***************************************************************************)
(* C10: with no source configured, or with every source failing,           *)
(* fetch_news returns an empty news_items with successful_feeds = 0 and    *)
(* failed_feeds = the number of sources; generate_html on an empty         *)
(* news_items returns the explicit "No news items found." document.        *)
(***************************************************************************)
C10_EmptyResult ==
    /\ (Returned /\ FailedSources = 1..Len(rss_feeds)) =>
          /\ news_items = <<>>
          /\ successful_feeds = 0
          /\ failed_feeds = Len(rss_feeds)
    /\ (html_out # <<>> /\ news_items = <<>>) =>
          html_out[1] = [ head |-> NoItemsHtml, generated |-> "", sections |-> <<>> ]

\* every one of several sources failed and the empty result was rendered
C10_Witness ==
    /\ pc = "rendered"
    /\ Len(rss_feeds) >= 2
    /\ failed_feeds = Len(rss_feeds)
    /\ news_items = <<>>
    /\ html_out[1].head = NoItemsHtml

(***************************************************************************)
(* C11 as stated: rendering the same returned result twice gives the same  *)
(* table both times and the same HTML both times.                          *)
(***************************************************************************)
C11_Idempotent ==
    /\ \A a, b \in 1..Len(table_renders) : table_renders[a] = table_renders[b]
    /\ \A a, b \in 1..Len(html_renders) : html_renders[a].out = html_renders[b].out

(***************************************************************************)
(* C11, amended: rendering the same returned result twice gives the same   *)
(* table both times; the HTML is the same both times except for its        *)
(* "Generated on" line, which is the same when both renderings fall in the *)
(* same minute or the result is empty; rendering leaves news_items         *)
(* unchanged (every rendering made so far is the rendering of the current  *)
(* news_items).                                                            *)
(***************************************************************************)
C11_RepeatableRendering ==
    /\ \A a \in 1..Len(table_renders) : table_renders[a] = to_csv(news_items)
    /\ \A a, b \in 1..Len(html_renders) :
          /\ html_renders[a].out.head = html_renders[b].out.head
          /\ html_renders[a].out.sections = html_renders[b].out.sections
          /\ (html_renders[a].minute = html_renders[b].minute \/ news_items = <<>>)
                => html_renders[a].out = html_renders[b].out
    /\ \A a \in 1..Len(html_renders) :
          LET again == generate_html(news_items, Stamp(html_renders[a].minute))
          IN  /\ html_renders[a].out.head = again.head
              /\ html_renders[a].out.sections = again.sections

\* both forms rendered twice, the two HTML renderings a minute apart
C11_Witness ==
    /\ Len(news_items) >= 2
    /\ Len(table_renders) >= 2
    /\ Len(html_renders) >= 2
    /\ html_renders[1].minute # html_renders[2].minute
    /\ html_renders[1].out # html_renders[2].out

\* the place of the i-th collected item in the stable order, newest first:
\* behind every item of a later date and every earlier-collected item of its date
StableRank(collected, i) ==
    1 + Cardinality({ j \in 1..Len(collected) :
                        IF collected[j].date = collected[i].date THEN j < i
                        ELSE StrLess(collected[i].date, collected[j].date) })

(***************************************************************************)
(* C12: after fetch_news returns, news_items is a prefix of the collected  *)
(* items put in stable order (newest date first, items of one date in the  *)
(* order they were collected: feed order, then entry order); when the      *)
(* collection exceeds a max_results that is a count, the prefix is exactly *)
(* max_results long, otherwise it is the whole collection; so every kept   *)
(* item's date is >= every dropped item's date.                            *)
(***************************************************************************)
C12_StablePrefix ==
    Returned =>
        LET collected == Collected(Len(rss_feeds))
            kept == Len(news_items)
        IN  /\ kept <= Len(collected)
            /\ \A i \in 1..Len(collected) :
                  LET rank == StableRank(collected, i)
                  IN  IF rank <= kept
                      THEN news_items[rank] = collected[i]
                      ELSE \A k \in 1..kept : StrGeq(news_items[k].date, collected[i].date)
            /\ (max_results >= 0 /\ Len(collected) > max_results) => kept = max_results
            /\ Len(collected) <= max_results => kept = Len(collected)

\* the cut falls between two items of one date, two kept items share a date
\* and the later-collected items are not all behind the earlier ones
C12_Witness ==
    /\ Returned
    /\ max_results > 0
    /\ LET collected == Collected(Len(rss_feeds))
       IN  /\ Len(collected) > max_results
           /\ ~SortedByDate(collected)
           /\ Len(news_items) = max_results
           /\ \E i \in 1..Len(collected) :
                 /\ StableRank(collected, i) > max_results
                 /\ collected[i].date = news_items[max_results].date
           /\ \E k \in 1..(max_results - 1) : news_items[k].date = news_items[k + 1].date

\* the positions that bound the space-delimited tokens of text: its spaces,
\* the place before its first character and the place after its last
TokenBounds(text) ==
    { 0, Len(text) + 1 } \cup { i \in 1..Len(text) : Char(text, i) = " " }

\* the space-delimited tokens of text
Tokens(text) ==
    LET bounds == TokenBounds(text)
        next(a) == CHOOSE b \in bounds : b > a /\ \A z \in bounds : z > a => b <= z
    IN  { SubSeq(text, a + 1, next(a) - 1) : a \in bounds \ { Len(text) + 1 } }

\* the marker words that are tokens of text
MarkersIn(text) ==
    { english_markers[m] : m \in 1..Len(english_markers) } \cap Tokens(text)

IsSubstring(part, text) ==
    \E i \in 1..(Len(text) + 1) : \E j \in (i - 1)..Len(text) : SubSeq(text, i, j) = part

(***************************************************************************)
(* C13: _is_related_to_automation(title, description) returns true if and  *)
(* only if, on the lowercased text title + " " + description, at least 2   *)
(* of the marker words are space-delimited tokens and at least one         *)
(* configured keyword, lowercased, is a substring; a text with no marker   *)
(* word as a token is rejected whatever keywords it holds.                 *)
(***************************************************************************)
C13_AcceptIffEnglishAndKeyword ==
    filter_call # <<>> =>
        LET call == filter_call[1]
            text == Lower(call.title \o " " \o call.description)
            markers == MarkersIn(text)
            keyword_found == \E k \in 1..Len(keywords) : IsSubstring(Lower(keywords[k]), text)
        IN  /\ call.verdict = (Cardinality(markers) >= 2 /\ keyword_found)
            /\ markers = {} => ~call.verdict

\* accepted on exactly two markers, one of them capitalised in the title,
\* and a keyword written in capitals
C13_Witness ==
    /\ filter_call # <<>>
    /\ filter_call[1].verdict
    /\ filter_call[1].description = ""
    /\ Cardinality(MarkersIn(Lower(filter_call[1].title \o " "))) = 2
    /\ IsSubstring("The", filter_call[1].title)
    /\ IsSubstring("RPA", filter_call[1].title)

====
